---- MODULE Spec2Model ----
(***************************************************************************)
(* Breadcrumb Panel (src/breadcrumb-panel.py) as a state machine.          *)
(*                                                                         *)
(* Strings are sequences of one-character strings.  Offsets, rows and      *)
(* regions are 0-based as in the host API; TLA+ sequences are 1-based, so  *)
(* the character at offset p is text[p + 1].                               *)
(*                                                                         *)
(* Threads.  Event handlers, commands and sublime.set_timeout callbacks    *)
(* run on the host's main thread; sublime.set_timeout_async callbacks      *)
(* (_run) run on the host's single alternate thread.  A handler is one     *)
(* action (its only shared reads and writes are linearizable at the gate   *)
(* read), _run is cut at its calls into the host, and _navigate_from_panel *)
(* is cut after its guard check and after it has read the panel's caret.   *)
(***************************************************************************)
EXTENDS Integers, Sequences, FiniteSets, TLC

\* ------------------------------------------------------------------ bounds

MaxSeq == 2
MaxCC == 1
MaxCarets == 2
MaxCalls == 3
MaxQueued == 2
MaxLines == 3
MaxReflexSeq == 8
MaxIndentLen == 4
MaxTabWidth == 5

\* ------------------------------------------------------- program constants

DefaultTabSize == 4
MaxScanLines == 5000
StatusTextWidth == 60
LineNoWidth == 6

\* ------------------------------------------------------------------ strings

None == "None"

SP == " "
TAB == "\t"
NL == "\n"
COLON == ":"

Whitespace == {SP, TAB, NL}
CloserChars == {")", "]", "}", ",", ":"}
DigitChars == <<"0", "1", "2", "3", "4", "5", "6", "7", "8", "9">>

MultipleContexts ==
  <<"M", "u", "l", "t", "i", "p", "l", "e", " ",
    "c", "o", "n", "t", "e", "x", "t", "s", "\n">>

NoIndent == <<"N", "o", " ", "i", "n", "d", "e", "n", "t", "\n">>

Min(a, b) == IF a < b THEN a ELSE b

Max(a, b) == IF a > b THEN a ELSE b

RECURSIVE LStrip(_)
LStrip(s) ==
  IF s # <<>> /\ Head(s) \in Whitespace THEN LStrip(Tail(s)) ELSE s

RECURSIVE RStrip(_)
RStrip(s) ==
  IF s # <<>> /\ s[Len(s)] \in Whitespace
  THEN RStrip(SubSeq(s, 1, Len(s) - 1))
  ELSE s

Strip(s) == LStrip(RStrip(s))

\* the list left as collected, nearest ancestor first
Unreversed(s) == s

RECURSIVE Reverse(_)
Reverse(s) == IF s = <<>> THEN <<>> ELSE Reverse(Tail(s)) \o <<Head(s)>>

\* ------------------------------------------------------------- host buffer

\* view.lines(Region(0, view.size())): one region <<begin, end>> per line,
\* the line after a final newline included.
RECURSIVE LinesFrom(_, _, _)
LinesFrom(text, i, start) ==
  IF i > Len(text) THEN << <<start, Len(text)>> >>
  ELSE IF text[i] = NL
       THEN << <<start, i - 1>> >> \o LinesFrom(text, i + 1, i)
       ELSE LinesFrom(text, i + 1, start)

LineRegions(text) == LinesFrom(text, 1, 0)

\* view.substr(region)
Substr(text, r) == SubSeq(text, r[1] + 1, r[2])

\* view.rowcol(pt)[0]
RowOf(text, pt) == Cardinality({i \in 1..Min(pt, Len(text)) : text[i] = NL})

\* view.line(pt)
LineAt(text, pt) == LineRegions(text)[RowOf(text, pt) + 1]

\* view.text_point(row, 0): past the last row it is the end of the buffer.
TextPoint(text, row) ==
  IF row + 1 <= Len(LineRegions(text))
  THEN LineRegions(text)[row + 1][1]
  ELSE Len(text)

\* region.begin()
Begin(r) == Min(r[1], r[2])

\* ------------------------------------------------------------ IndentMeasure

\* the while loop with `cols += tab_size` for a tab
RECURSIVE IndentColsWideTab(_, _, _, _)
IndentColsWideTab(text, i, cols, tab_size) ==
  IF i > Len(text) THEN cols
  ELSE IF text[i] = SP THEN IndentColsWideTab(text, i + 1, cols + 1, tab_size)
  ELSE IF text[i] = TAB
       THEN IndentColsWideTab(text, i + 1, cols + tab_size, tab_size)
       ELSE cols

RECURSIVE IndentCols(_, _, _, _)
IndentCols(text, i, cols, tab_size) ==
  IF i > Len(text) THEN cols
  ELSE IF text[i] = SP THEN IndentCols(text, i + 1, cols + 1, tab_size)
  ELSE IF text[i] = TAB
       THEN IndentCols(text, i + 1, cols + (tab_size - (cols % tab_size)), tab_size)
       ELSE cols

\* tab_setting is view.settings().get("tab_size"), with 0 also standing for a
\* missing setting: both are falsy in `int(... or 4)`.
TabSizeOf(tab_setting) ==
  IF tab_setting = 0 THEN DefaultTabSize ELSE tab_setting

\* the columns rounded up to whole units
LeadingIndentUnitsCeil(line_text, tab_setting) ==
  (IndentCols(line_text, 1, 0, TabSizeOf(tab_setting)) + TabSizeOf(tab_setting) - 1)
    \div TabSizeOf(tab_setting)

LeadingIndentUnits(line_text, tab_setting) ==
  IndentCols(line_text, 1, 0, TabSizeOf(tab_setting)) \div TabSizeOf(tab_setting)

IsBlank(text) == Strip(text) = <<>>

\* no line counts as closer-only
IsOnlyCloserNever(line_text) == FALSE

IsOnlyCloser(line_text) ==
  /\ Strip(line_text) # <<>>
  /\ \A i \in 1..Len(Strip(line_text)) : Strip(line_text)[i] \in CloserChars

\* --------------------------------------------------------- AncestorResolver

\* the while loop without its `scanned < max_scan`
RECURSIVE ScanUpUnbounded(_, _, _, _, _, _, _)
ScanUpUnbounded(text, tab_setting, max_scan, i, target_units, scanned, out) ==
  IF ~(i >= 0 /\ target_units > 0) THEN out
  ELSE
    LET r == LineRegions(text)[i + 1]
        line == Substr(text, r)
        units == LeadingIndentUnits(line, tab_setting)
    IN  IF IsBlank(line)
        THEN ScanUpUnbounded(text, tab_setting, max_scan, i - 1, target_units,
                             scanned + 1, out)
        ELSE IF units < target_units /\ ~IsOnlyCloser(line)
        THEN IF units = 0
             THEN out \o << <<RowOf(text, r[1]) + 1, RStrip(line), units>> >>
             ELSE ScanUpUnbounded(text, tab_setting, max_scan, i - 1, units,
                                  scanned + 1,
                                  out \o << <<RowOf(text, r[1]) + 1, RStrip(line), units>> >>)
        ELSE ScanUpUnbounded(text, tab_setting, max_scan, i - 1, target_units,
                             scanned + 1, out)

\* the while loop without its `target_units = units`
RECURSIVE ScanUpSameThreshold(_, _, _, _, _, _, _)
ScanUpSameThreshold(text, tab_setting, max_scan, i, target_units, scanned, out) ==
  IF ~(i >= 0 /\ target_units > 0 /\ scanned < max_scan) THEN out
  ELSE
    LET r == LineRegions(text)[i + 1]
        line == Substr(text, r)
        units == LeadingIndentUnits(line, tab_setting)
    IN  IF IsBlank(line)
        THEN ScanUpSameThreshold(text, tab_setting, max_scan, i - 1, target_units,
                                 scanned + 1, out)
        ELSE IF units < target_units /\ ~IsOnlyCloser(line)
        THEN IF units = 0
             THEN out \o << <<RowOf(text, r[1]) + 1, RStrip(line), units>> >>
             ELSE ScanUpSameThreshold(text, tab_setting, max_scan, i - 1, target_units,
                                      scanned + 1,
                                      out \o << <<RowOf(text, r[1]) + 1, RStrip(line), units>> >>)
        ELSE ScanUpSameThreshold(text, tab_setting, max_scan, i - 1, target_units,
                                 scanned + 1, out)

\* The while loop of _find_breadcrumb_lines: i is the row being visited,
\* target_units the threshold, scanned the lines visited, out the accumulator.
RECURSIVE ScanUp(_, _, _, _, _, _, _)
ScanUp(text, tab_setting, max_scan, i, target_units, scanned, out) ==
  IF ~(i >= 0 /\ target_units > 0 /\ scanned < max_scan) THEN out
  ELSE
    LET r == LineRegions(text)[i + 1]
        line == Substr(text, r)
        units == LeadingIndentUnits(line, tab_setting)
    IN  IF IsBlank(line)
        THEN ScanUp(text, tab_setting, max_scan, i - 1, target_units, scanned + 1, out)
        ELSE IF units < target_units /\ ~IsOnlyCloser(line)
        THEN IF units = 0
             THEN out \o << <<RowOf(text, r[1]) + 1, RStrip(line), units>> >>
             ELSE ScanUp(text, tab_setting, max_scan, i - 1, units, scanned + 1,
                         out \o << <<RowOf(text, r[1]) + 1, RStrip(line), units>> >>)
        ELSE ScanUp(text, tab_setting, max_scan, i - 1, target_units, scanned + 1, out)

FindBreadcrumbLines(text, tab_setting, row, max_scan) ==
  LET regions == LineRegions(text)
      crow == Max(0, Min(row, Len(regions) - 1))
      curr_units == LeadingIndentUnits(Substr(text, regions[crow + 1]), tab_setting)
  IN  IF regions = <<>> THEN <<>>
      ELSE IF curr_units = 0 THEN <<>>
      ELSE Reverse(ScanUp(text, tab_setting, max_scan, crow - 1, curr_units, 0, <<>>))

\* The rows the while loop of _find_breadcrumb_lines visits, in the order
\* visited (each visit is one `scanned += 1`).
RECURSIVE ScanVisited(_, _, _, _, _, _, _)
ScanVisited(text, tab_setting, max_scan, i, target_units, scanned, seen) ==
  IF ~(i >= 0 /\ target_units > 0 /\ scanned < max_scan) THEN seen
  ELSE
    LET line == Substr(text, LineRegions(text)[i + 1])
        units == LeadingIndentUnits(line, tab_setting)
    IN  IF IsBlank(line)
        THEN ScanVisited(text, tab_setting, max_scan, i - 1, target_units,
                         scanned + 1, Append(seen, i))
        ELSE IF units < target_units /\ ~IsOnlyCloser(line)
        THEN IF units = 0
             THEN Append(seen, i)
             ELSE ScanVisited(text, tab_setting, max_scan, i - 1, units,
                              scanned + 1, Append(seen, i))
        ELSE ScanVisited(text, tab_setting, max_scan, i - 1, target_units,
                         scanned + 1, Append(seen, i))

\* row = max(0, min(row, len(regions) - 1))
ClampRow(text, row) == Max(0, Min(row, Len(LineRegions(text)) - 1))

\* The rows _find_breadcrumb_lines(view, row, debug, max_scan) visits.
VisitedRows(text, tab_setting, row, max_scan) ==
  LET crow == ClampRow(text, row)
      curr_units ==
        LeadingIndentUnits(Substr(text, LineRegions(text)[crow + 1]), tab_setting)
  IN  IF curr_units = 0 THEN <<>>
      ELSE ScanVisited(text, tab_setting, max_scan, crow - 1, curr_units, 0, <<>>)

\* ------------------------------------------------------- BreadcrumbFormatter

RECURSIVE Digits(_)
Digits(n) ==
  IF n < 10 THEN <<DigitChars[n + 1]>>
  ELSE Digits(n \div 10) \o <<DigitChars[(n % 10) + 1]>>

RECURSIVE PadLeft(_, _)
PadLeft(s, width) == IF Len(s) >= width THEN s ELSE PadLeft(<<SP>> \o s, width)

\* the row with the line's text put first
CrumbRowTextFirst(crumb) ==
  crumb[2] \o <<COLON, SP, SP>> \o PadLeft(Digits(crumb[1]), LineNoWidth)

\* f"{ln:>6}:  {text}"
CrumbRow(crumb) == PadLeft(Digits(crumb[1]), LineNoWidth) \o <<COLON, SP, SP>> \o crumb[2]

\* "\n".join(lines) + "\n"
RECURSIVE JoinRows(_)
JoinRows(crumbs) ==
  IF crumbs = <<>> THEN <<>>
  ELSE CrumbRow(Head(crumbs)) \o <<NL>> \o JoinRows(Tail(crumbs))

\* sels is the view's selection, a sequence of regions.
FormatBreadcrumbs(text, tab_setting, sels, max_scan) ==
  IF Len(sels) # 1 THEN MultipleContexts
  ELSE LET crumbs == FindBreadcrumbLines(text, tab_setting,
                                         RowOf(text, Begin(sels[1])), max_scan)
       IN  IF crumbs = <<>> THEN NoIndent ELSE JoinRows(crumbs)

\* (row, units) of the first selection; (-1, 0) when there is none.
CurrentRowAndUnits(text, tab_setting, sels) ==
  IF sels = <<>> THEN <<-1, 0>>
  ELSE <<RowOf(text, Begin(sels[1])),
         LeadingIndentUnits(Substr(text, LineAt(text, Begin(sels[1]))), tab_setting)>>

\* -------------------------------------------------------------------- state

Views == <<"A", "B">>

V == {Views[i] : i \in 1..Len(Views)}

\* The two files as first opened.
InitialText ==
  [v \in V |-> IF v = "A" THEN <<"x", NL, TAB, "x">> ELSE <<"y", NL, TAB, "y">>]

\* view.settings().get("tab_size") of every view.
TabSetting == 4

VARIABLES
  text,               \* view -> buffer contents
  sel,                \* view -> selection, a sorted sequence of regions <<a, b>>
  cc,                 \* view -> change_count()
  active,             \* the window's active view, or None
  open,               \* window.views()
  debug,              \* view -> the "breadcrumb_panel.debug" setting
  status,             \* view -> the "breadcrumb_panel" status, <<>> when erased
  panel_exists,       \* the output panel has been created
  panel_visible,      \* window.active_panel() = "output.breadcrumb_panel"
  panel_text,         \* contents of the panel
  panel_read_only,
  panel_sel,          \* offset of the panel's caret
  enabled,            \* STATE.enabled
  updating_panel,     \* STATE.updating_panel
  last_key,           \* STATE.last_key, <<>> for None
  seq,                \* STATE.seq
  last_scheduled,     \* STATE.last_scheduled
  context_by_buffer,  \* STATE.context_by_buffer, <<>> for a missing key
  pending,            \* tokens of the _run callbacks set_timeout_async holds
  running,            \* the _run callback the alternate thread is executing
  events,             \* notifications the host has raised and not yet delivered
  nav,                \* the _navigate_from_panel callback: its position and row
  rendered,           \* the context the panel's last written text was formatted from
  calls,              \* thread -> its _schedule_update call at bytecode grain
  issued,             \* the callbacks of those calls: thread, token and fate
  probe               \* one call of the resolver, the formatter and the row parse

bufVars == <<text, sel, cc, active, open>>

panelVars == <<panel_exists, panel_visible, panel_text, panel_read_only, panel_sel>>

tokenVars == <<seq, last_scheduled, pending>>

threadVars == <<calls, issued>>

vars ==
  <<text, sel, cc, active, open, debug, status, panel_exists, panel_visible,
    panel_text, panel_read_only, panel_sel, enabled, updating_panel, last_key,
    seq, last_scheduled, context_by_buffer, pending, running, events, nav,
    rendered, calls, issued, probe>>

Threads == {"main", "async"}

IdleRun == [phase |-> "idle", token |-> 0, src |-> None, text |-> <<>>,
            snapshot |-> <<>>, failed |-> FALSE]

IdleCall == [pc |-> "idle", tmp |-> 0, token |-> 0]

IdleNav == [pc |-> "none", row |-> 0]

IdleProbe ==
  [pc |-> "idle", text |-> <<>>, tab_setting |-> 0, row |-> 0, max_scan |-> 0,
   chain |-> <<>>, visited |-> <<>>, sels |-> <<>>, formatted |-> <<>>,
   parsed |-> <<>>, points |-> <<>>, units |-> 0]

\* The plugin as loaded: STATE as __init__ leaves it, two files open, no panel.
Loaded ==
  /\ text = InitialText
  /\ sel = [v \in V |-> << <<0, 0>> >>]
  /\ cc = [v \in V |-> 0]
  /\ active = "A"
  /\ open = V
  /\ debug = [v \in V |-> FALSE]
  /\ status = [v \in V |-> <<>>]
  /\ panel_exists = FALSE
  /\ panel_visible = FALSE
  /\ panel_text = <<>>
  /\ panel_read_only = TRUE
  /\ panel_sel = 0
  /\ enabled = FALSE
  /\ updating_panel = FALSE
  /\ last_key = <<>>
  /\ seq = 0
  /\ last_scheduled = 0
  /\ context_by_buffer = [v \in V |-> <<>>]
  /\ pending = {}
  /\ running = IdleRun
  /\ events = <<>>
  /\ nav = IdleNav
  /\ rendered = <<>>
  /\ calls = [t \in Threads |-> IdleCall]
  /\ issued = <<>>

Init == Loaded /\ probe = IdleProbe

\* ----------------------------------------------------------- plugin helpers

\* view.settings().get("is_widget") of a file view.
IsWidget(v) == FALSE

\* _source_view_for without its tests: the view last active, open or not
SourceViewAnyView == active

\* _source_view_for(window): the active view when it is no widget, else the
\* first view of window.views() that is none, else None.
SourceView ==
  IF active \in open /\ ~IsWidget(active) THEN active
  ELSE IF \E i \in 1..Len(Views) : Views[i] \in open /\ ~IsWidget(Views[i])
       THEN Views[CHOOSE i \in 1..Len(Views) :
                    /\ Views[i] \in open /\ ~IsWidget(Views[i])
                    /\ \A j \in 1..(i - 1) : ~(Views[j] \in open /\ ~IsWidget(Views[j]))]
       ELSE None

\* _panel_view creating the panel with a placeholder line in it
PanelViewPlaceholder ==
  /\ panel_exists' = TRUE
  /\ panel_text' = NoIndent
  /\ panel_sel' = 0
  /\ panel_read_only' = TRUE

\* _panel_view(window): create_output_panel gives the named panel afresh
\* (empty, caret at 0) and the panel is made read-only.
PanelView ==
  /\ panel_exists' = TRUE
  /\ panel_text' = <<>>
  /\ panel_sel' = 0
  /\ panel_read_only' = TRUE

\* The cheap context of a view: (row, units, change_count).
CheapContext(v) ==
  <<CurrentRowAndUnits(text[v], TabSetting, sel[v])[1],
    CurrentRowAndUnits(text[v], TabSetting, sel[v])[2],
    cc[v]>>

\* `prev and prev == (row, units, cc)`
GateSkips(v) ==
  /\ context_by_buffer[v] # <<>>
  /\ context_by_buffer[v] = CheapContext(v)

\* _schedule_update without its STATE.enabled check
DormantNever(en) == FALSE

\* `if not STATE.enabled: return`
Dormant(en) == ~en

\* the token taken without the increment
NextTokenReused == seq

\* STATE.seq += 1; token = STATE.seq
NextToken == seq + 1

\* Lines 458-461 and 510: the token is issued, marked latest and its _run
\* callback handed to set_timeout_async.
IssueToken ==
  /\ seq < MaxSeq
  /\ seq' = NextToken
  /\ last_scheduled' = NextToken
  /\ pending' = pending \cup {NextToken}

\* _schedule_update(window, hint_view), with STATE.enabled and the panel's
\* visibility as the caller has left them.
ScheduleUpdate(en, visible) ==
  IF Dormant(en) THEN UNCHANGED tokenVars
  ELSE IF ~visible THEN UNCHANGED tokenVars
  ELSE IF SourceView = None THEN UNCHANGED tokenVars
  ELSE IF GateSkips(SourceView) THEN UNCHANGED tokenVars
  ELSE IssueToken

\* The main thread is not inside a _navigate_from_panel callback.
MainThreadFree == nav.pc \in {"none", "scheduled"}

\* The alternate thread is not inside a _run callback.
AsyncThreadFree == running.phase = "idle"

\* BreadcrumbPanelListener._should_ignore
ShouldIgnore(v) == IsWidget(v) \/ ~enabled

\* The body shared by on_activated, on_selection_modified,
\* on_selection_modified_async and on_modified, delivered for view v.
Handler(name, v) ==
  /\ events # <<>>
  /\ Head(events) = <<name, v>>
  /\ events' = Tail(events)
  /\ IF ShouldIgnore(v) THEN UNCHANGED tokenVars
     ELSE IF v \notin open THEN UNCHANGED tokenVars
     ELSE ScheduleUpdate(enabled, panel_visible)
  /\ UNCHANGED <<bufVars, debug, status, panelVars, enabled, updating_panel,
                 last_key, context_by_buffer, running, nav, rendered, threadVars, probe>>

OnActivated(v) == MainThreadFree /\ Handler("on_activated", v)

OnSelectionModified(v) == MainThreadFree /\ Handler("on_selection_modified", v)

OnSelectionModifiedAsync(v) ==
  AsyncThreadFree /\ Handler("on_selection_modified_async", v)

OnModified(v) == MainThreadFree /\ Handler("on_modified", v)

\* ToggleBreadcrumbPanelCommand.run
TogglePanel ==
  /\ events = <<>>
  /\ MainThreadFree
  /\ IF panel_visible
     THEN /\ enabled' = FALSE
          /\ last_key' = <<>>
          /\ status' = [v \in V |-> IF v \in open THEN <<>> ELSE status[v]]
          /\ panel_visible' = FALSE
          /\ UNCHANGED <<panel_exists, panel_text, panel_read_only, panel_sel,
                         tokenVars>>
     ELSE /\ enabled' = TRUE
          /\ PanelView
          /\ panel_visible' = TRUE
          /\ ScheduleUpdate(TRUE, TRUE)
          /\ UNCHANGED <<last_key, status>>
  /\ UNCHANGED <<bufVars, debug, updating_panel, context_by_buffer, running,
                 events, nav, rendered, threadVars, probe>>

\* ToggleBreadcrumbPanelDebugCommand.run
ToggleDebug ==
  /\ events = <<>>
  /\ MainThreadFree
  /\ IF active \notin open
     THEN UNCHANGED <<debug, tokenVars>>
     ELSE /\ debug' = [debug EXCEPT ![active] = ~debug[active]]
          /\ ScheduleUpdate(enabled, panel_visible)
  /\ UNCHANGED <<bufVars, status, panelVars, enabled, updating_panel, last_key,
                 context_by_buffer, running, events, nav, rendered, threadVars, probe>>

\* ------------------------------------------------------------------- _run

\* _run without its token check
StaleNever(token) == FALSE

\* `if token != STATE.last_scheduled: return`
Stale(token) == token # last_scheduled

\* row of the first selection, -1 without one (line 488)
KeyRow(v) == IF sel[v] # <<>> THEN RowOf(text[v], Begin(sel[v][1])) ELSE -1

\* key = (buffer_id, row, sels_hash)
RenderKey(v) == <<v, KeyRow(v), sel[v]>>

\* `if key == STATE.last_key` never taken
SameAsLastRenderNever(v) == FALSE

\* `if key == STATE.last_key`
SameAsLastRender(v) == RenderKey(v) = last_key

\* f"Breadcrumbs: {'active' if STATE.enabled else 'off'} — {text.strip()[:60]}"
StatusOf(t) ==
  <<IF enabled THEN "active" ELSE "off",
    SubSeq(Strip(t), 1, Min(StatusTextWidth, Len(Strip(t))))>>

\* A _run callback fires: lines 476-499 and the first line of _set_panel_text.
RunBegin(token) ==
  /\ token \in pending
  /\ running.phase = "idle"
  /\ pending' = pending \ {token}
  /\ IF Stale(token) \/ SourceView = None
     THEN UNCHANGED <<context_by_buffer, last_key, panelVars, updating_panel, running>>
     ELSE IF SameAsLastRender(SourceView)
     THEN /\ context_by_buffer' =
               [context_by_buffer EXCEPT
                  ![SourceView] = <<KeyRow(SourceView), CheapContext(SourceView)[2],
                                    cc[SourceView]>>]
          /\ UNCHANGED <<last_key, panelVars, updating_panel, running>>
     ELSE /\ last_key' = RenderKey(SourceView)
          /\ PanelView
          /\ updating_panel' = TRUE
          /\ running' =
               [phase |-> "write", token |-> token, src |-> SourceView,
                text |-> FormatBreadcrumbs(text[SourceView], TabSetting,
                                           sel[SourceView], MaxScanLines),
                snapshot |-> <<SourceView>> \o CheapContext(SourceView),
                failed |-> FALSE]
          /\ UNCHANGED <<context_by_buffer, panel_visible>>
  /\ UNCHANGED <<bufVars, debug, status, enabled, seq, last_scheduled, events,
                 nav, rendered, threadVars, probe>>

\* _set_panel_text, the try block: the panel is made writable, emptied and
\* the text appended (the caret of an emptied panel follows the append).
RunWrite ==
  /\ running.phase = "write"
  /\ panel_read_only' = FALSE
  /\ panel_text' = running.text
  /\ panel_sel' = Len(running.text)
  /\ rendered' = running.snapshot
  /\ running' = [running EXCEPT !.phase = "finally"]
  /\ UNCHANGED <<bufVars, debug, status, panel_exists, panel_visible, enabled,
                 updating_panel, last_key, context_by_buffer, tokenVars, events,
                 nav, threadVars, probe>>

\* _set_panel_text, the try block raising in a host call.
RunWriteFails ==
  /\ running.phase = "write"
  /\ panel_read_only' = FALSE
  /\ running' = [running EXCEPT !.phase = "finally", !.failed = TRUE]
  /\ UNCHANGED <<bufVars, debug, status, panel_exists, panel_visible, panel_text,
                 panel_sel, enabled, updating_panel, last_key, context_by_buffer,
                 tokenVars, events, nav, rendered, threadVars, probe>>

\* _set_panel_text, the finally block, and, unless the write raised, the rest
\* of _run (lines 501-505).
RunFinish ==
  /\ running.phase = "finally"
  /\ panel_read_only' = TRUE
  /\ updating_panel' = FALSE
  /\ running' = IdleRun
  /\ IF running.failed
     THEN UNCHANGED <<status, context_by_buffer>>
     ELSE /\ status' = [status EXCEPT ![running.src] = StatusOf(running.text)]
          /\ context_by_buffer' =
               [context_by_buffer EXCEPT ![running.src] = CheapContext(running.src)]
  /\ UNCHANGED <<bufVars, debug, panel_exists, panel_visible, panel_text, panel_sel,
                 enabled, last_key, tokenVars, events, nav, rendered, threadVars, probe>>

\* ------------------------------------------------------------- navigation

IsDigit(c) == \E d \in 1..10 : DigitChars[d] = c

DigitValue(c) == (CHOOSE d \in 1..10 : DigitChars[d] = c) - 1

\* The digits of an int() literal, single underscores allowed between
\* digits; -1 for a ValueError.
RECURSIVE ParseDigits(_, _)
ParseDigits(s, acc) ==
  IF s = <<>> THEN acc
  ELSE IF IsDigit(Head(s)) THEN ParseDigits(Tail(s), acc * 10 + DigitValue(Head(s)))
  ELSE IF Head(s) = "_" /\ Len(s) > 1 /\ IsDigit(s[2]) THEN ParseDigits(Tail(s), acc)
  ELSE -1

\* int(prefix): <<n>>, or <<>> for a ValueError.
ParseInt(prefix) ==
  LET s == Strip(prefix)
      signed == s # <<>> /\ Head(s) \in {"+", "-"}
      body == IF signed THEN Tail(s) ELSE s
  IN  IF body = <<>> \/ ~IsDigit(Head(body)) \/ ParseDigits(body, 0) = -1 THEN <<>>
      ELSE IF signed /\ Head(s) = "-" THEN <<0 - ParseDigits(body, 0)>>
      ELSE <<ParseDigits(body, 0)>>

\* the text cut at its last colon
BeforeLastColon(s) ==
  IF \E i \in 1..Len(s) : s[i] = COLON
  THEN SubSeq(s, 1, (CHOOSE i \in 1..Len(s) :
                       s[i] = COLON /\ \A j \in (i + 1)..Len(s) : s[j] # COLON) - 1)
  ELSE s

\* text.split(":", 1)[0]
RECURSIVE BeforeColon(_)
BeforeColon(s) ==
  IF s = <<>> \/ Head(s) = COLON THEN <<>> ELSE <<Head(s)>> \o BeforeColon(Tail(s))

\* every line that is not empty taken as naming line 1
LineNoOfAnyLine(line_text) == IF Strip(line_text) = <<>> THEN <<>> ELSE <<1>>

\* Lines 695-706: the line number that a panel line names, <<n>>, or <<>>
\* when the line is no crumb row.
LineNoOf(line_text) ==
  LET line == Strip(line_text)
  IN  IF line = <<>> \/ ~(\E i \in 1..Len(line) : line[i] = COLON) THEN <<>>
      ELSE ParseInt(BeforeColon(line))

\* Lines 692-706 for the panel's line `row`.
ClickedLineNo(row) ==
  LineNoOf(Substr(panel_text, LineAt(panel_text, TextPoint(panel_text, row))))

SelectionEvents(v) ==
  << <<"on_selection_modified", v>>, <<"on_selection_modified_async", v>> >>

\* `if STATE.updating_panel: return`
UpdatingPanel == updating_panel

\* The user clicks a row of the panel: on_text_command(panel, "drag_select")
\* runs, then the command itself places the panel's caret.
UserClickPanel(row) ==
  /\ panel_exists /\ panel_visible
  /\ events = <<>>
  /\ nav.pc = "none"
  /\ row \in 0..(Len(LineRegions(panel_text)) - 1)
  /\ nav' = IF UpdatingPanel THEN nav ELSE [nav EXCEPT !.pc = "scheduled"]
  /\ panel_sel' = TextPoint(panel_text, row)
  /\ UNCHANGED <<bufVars, debug, status, panel_exists, panel_visible, panel_text,
                 panel_read_only, enabled, updating_panel, last_key,
                 context_by_buffer, tokenVars, running, events, rendered, threadVars, probe>>

\* _navigate_from_panel, lines 671-673.
NavigateGuard ==
  /\ nav.pc = "scheduled"
  /\ nav' = IF UpdatingPanel THEN IdleNav ELSE [nav EXCEPT !.pc = "checked"]
  /\ UNCHANGED <<bufVars, debug, status, panelVars, enabled, updating_panel, last_key,
                 context_by_buffer, tokenVars, running, events, rendered, threadVars, probe>>

\* _navigate_from_panel, lines 675-691: the window, the source view and the
\* row of the panel's caret.
NavigateLocate ==
  /\ nav.pc = "checked"
  /\ nav' = IF ~panel_exists \/ SourceView = None THEN IdleNav
            ELSE [pc |-> "located", row |-> RowOf(panel_text, panel_sel)]
  /\ UNCHANGED <<bufVars, debug, status, panelVars, enabled, updating_panel, last_key,
                 context_by_buffer, tokenVars, running, events, rendered, threadVars, probe>>

\* _navigate_from_panel, lines 692-712: the text of that row is read and
\* parsed and the caret of the source view moved.
NavigateMove ==
  /\ nav.pc = "located"
  /\ nav' = IdleNav
  /\ IF SourceView = None \/ ClickedLineNo(nav.row) = <<>>
     THEN UNCHANGED <<sel, events>>
     ELSE LET pt == TextPoint(text[SourceView], Max(0, ClickedLineNo(nav.row)[1] - 1))
          IN  /\ sel' = [sel EXCEPT ![SourceView] = << <<pt, pt>> >>]
              /\ events' = IF sel' = sel THEN events
                           ELSE events \o SelectionEvents(SourceView)
  /\ UNCHANGED <<text, cc, active, open, debug, status, panelVars, enabled,
                 updating_panel, last_key, context_by_buffer, tokenVars, running,
                 rendered, threadVars, probe>>

\* ------------------------------------------- resolver, formatter, row parse

\* Lines a file may hold: blank, top level, indented by one and by two
\* spaces (one with a colon in it), indented by a tab, and a closer-only line.
SampleLines ==
  { <<>>, <<"x">>, <<SP, "x", COLON>>, <<SP, SP, "x">>, <<TAB, "x">>,
    <<SP, ")">> }

RECURSIVE JoinLines(_)
JoinLines(lines) ==
  IF Len(lines) = 1 THEN lines[1]
  ELSE lines[1] \o <<NL>> \o JoinLines(Tail(lines))

SampleTexts ==
  {JoinLines(ls) : ls \in UNION {[1..n -> SampleLines] : n \in 1..MaxLines}}

\* "tab_size" settings: missing (0, so 4 is taken) and 1.
TabSettings == {0, 1}

\* A call of _find_breadcrumb_lines is set up.
ProbeInputs ==
  [pc : {"input"}, text : SampleTexts, tab_setting : TabSettings,
   row : -1..MaxLines, max_scan : 0..MaxLines,
   chain : {<<>>}, visited : {<<>>}, sels : {<<>>}, formatted : {<<>>},
   parsed : {<<>>}, points : {<<>>}, units : {0}]

pluginVars ==
  <<text, sel, cc, active, open, debug, status, panel_exists, panel_visible,
    panel_text, panel_read_only, panel_sel, enabled, updating_panel, last_key,
    seq, last_scheduled, context_by_buffer, pending, running, events, nav,
    rendered, calls, issued>>

\* _find_breadcrumb_lines(view, row, debug, max_scan) is called.
ProbeResolve ==
  /\ probe.pc = "input"
  /\ probe' =
       [probe EXCEPT
          !.pc = "resolved",
          !.chain = FindBreadcrumbLines(probe.text, probe.tab_setting, probe.row,
                                        probe.max_scan),
          !.visited = VisitedRows(probe.text, probe.tab_setting, probe.row,
                                  probe.max_scan)]
  /\ UNCHANGED pluginVars

\* The selection of the view with n carets, the first one on the target row.
ProbeSels(n) ==
  IF n = 0 THEN <<>>
  ELSE IF n = 1
  THEN << <<TextPoint(probe.text, ClampRow(probe.text, probe.row)),
            TextPoint(probe.text, ClampRow(probe.text, probe.row))>> >>
  ELSE << <<0, 0>>, <<Len(probe.text), Len(probe.text)>> >>

\* _format_breadcrumbs(view, debug) is called with n carets in the view.
ProbeFormat(n) ==
  /\ probe.pc = "resolved"
  /\ n \in 0..2
  /\ n = 2 => Len(probe.text) > 0
  /\ probe' =
       [probe EXCEPT
          !.pc = "formatted",
          !.sels = ProbeSels(n),
          !.formatted = FormatBreadcrumbs(probe.text, probe.tab_setting,
                                          ProbeSels(n), probe.max_scan)]
  /\ UNCHANGED pluginVars

\* Every line of the formatted text is clicked in turn: lines 692-709 give its
\* line number and the point the caret of the source view is moved to.
ProbeNavigate ==
  /\ probe.pc = "formatted"
  /\ LET rows == LineRegions(probe.formatted)
         no(i) == LineNoOf(Substr(probe.formatted, rows[i]))
     IN  probe' =
           [probe EXCEPT
              !.pc = "navigated",
              !.parsed = [i \in 1..Len(rows) |-> no(i)],
              !.points = [i \in 1..Len(rows) |->
                            IF no(i) = <<>> THEN <<>>
                            ELSE <<TextPoint(probe.text, Max(0, no(i)[1] - 1))>>]]
  /\ UNCHANGED pluginVars

\* ------------------------------------------------------------- environment

\* Where the user puts a caret: the start of a line.
CaretStops(v) ==
  {LineRegions(text[v])[i][1] : i \in 1..Len(LineRegions(text[v]))}

RECURSIVE InsertSorted(_, _)
InsertSorted(sels, r) ==
  IF sels = <<>> THEN <<r>>
  ELSE IF r[1] < Head(sels)[1] THEN <<r>> \o sels
  ELSE <<Head(sels)>> \o InsertSorted(Tail(sels), r)

\* The user places the caret in the active view.
UserMoveCaret(p) ==
  /\ events = <<>>
  /\ active \in open
  /\ p \in CaretStops(active)
  /\ sel[active] # << <<p, p>> >>
  /\ sel' = [sel EXCEPT ![active] = << <<p, p>> >>]
  /\ events' = SelectionEvents(active)
  /\ UNCHANGED <<text, cc, active, open, debug, status, panelVars, enabled,
                 updating_panel, last_key, context_by_buffer, tokenVars, running,
                 nav, rendered, threadVars, probe>>

\* The user places the caret again while notifications of an earlier move are
\* still to be delivered (a burst).
UserMoveCaretInBurst(p) ==
  /\ Len(events) < MaxQueued
  /\ active \in open
  /\ p \in CaretStops(active)
  /\ sel[active] # << <<p, p>> >>
  /\ sel' = [sel EXCEPT ![active] = << <<p, p>> >>]
  /\ events' = events \o SelectionEvents(active)
  /\ UNCHANGED <<text, cc, active, open, debug, status, panelVars, enabled,
                 updating_panel, last_key, context_by_buffer, tokenVars, running,
                 nav, rendered, threadVars, probe>>

\* The user adds a caret in the active view.
UserAddCaret(p) ==
  /\ events = <<>>
  /\ active \in open
  /\ Len(sel[active]) < MaxCarets
  /\ p \in CaretStops(active)
  /\ \A i \in 1..Len(sel[active]) : sel[active][i] # <<p, p>>
  /\ sel' = [sel EXCEPT ![active] = InsertSorted(sel[active], <<p, p>>)]
  /\ events' = SelectionEvents(active)
  /\ UNCHANGED <<text, cc, active, open, debug, status, panelVars, enabled,
                 updating_panel, last_key, context_by_buffer, tokenVars, running,
                 nav, rendered, threadVars, probe>>

\* The user deletes the character right of the single caret of the active
\* view (right_delete): the caret's offset stays.
UserRightDelete ==
  /\ events = <<>>
  /\ active \in open
  /\ cc[active] < MaxCC
  /\ Len(sel[active]) = 1
  /\ sel[active][1][1] = sel[active][1][2]
  /\ sel[active][1][1] < Len(text[active])
  /\ text' = [text EXCEPT ![active] =
                SubSeq(text[active], 1, sel[active][1][1])
                \o SubSeq(text[active], sel[active][1][1] + 2, Len(text[active]))]
  /\ cc' = [cc EXCEPT ![active] = cc[active] + 1]
  /\ events' = << <<"on_modified", active>> >>
  /\ UNCHANGED <<sel, active, open, debug, status, panelVars, enabled,
                 updating_panel, last_key, context_by_buffer, tokenVars, running,
                 nav, rendered, threadVars, probe>>

\* The user switches to another file.
UserActivate(v) ==
  /\ events = <<>>
  /\ v \in open
  /\ v # active
  /\ active' = v
  /\ events' = << <<"on_activated", v>> >>
  /\ UNCHANGED <<text, sel, cc, open, debug, status, panelVars, enabled,
                 updating_panel, last_key, context_by_buffer, tokenVars, running,
                 nav, rendered, threadVars, probe>>

\* The user closes a file while no callback of the plugin is under way: the
\* view leaves window.views() and has no window any more; if it was the
\* active view, the next open file, if there is one, is activated.
UserCloseView(v) ==
  /\ events = <<>>
  /\ MainThreadFree /\ AsyncThreadFree
  /\ v \in open
  /\ open' = open \ {v}
  /\ IF v = active /\ open' # {}
     THEN /\ active' = CHOOSE w \in open' : TRUE
          /\ events' = << <<"on_activated", active'>> >>
     ELSE UNCHANGED <<active, events>>
  /\ UNCHANGED <<text, sel, cc, debug, status, panelVars, enabled,
                 updating_panel, last_key, context_by_buffer, tokenVars, running,
                 nav, rendered, threadVars, probe>>

\* The user closes the panel with Escape, or opens another panel.
UserHidePanel ==
  /\ events = <<>>
  /\ panel_visible
  /\ panel_visible' = FALSE
  /\ UNCHANGED <<bufVars, debug, status, panel_exists, panel_text, panel_read_only,
                 panel_sel, enabled, updating_panel, last_key, context_by_buffer,
                 tokenVars, running, events, nav, rendered, threadVars, probe>>

\* The user opens the existing panel from the panel switcher.
UserShowPanel ==
  /\ events = <<>>
  /\ panel_exists
  /\ ~panel_visible
  /\ panel_visible' = TRUE
  /\ UNCHANGED <<bufVars, debug, status, panel_exists, panel_text, panel_read_only,
                 panel_sel, enabled, updating_panel, last_key, context_by_buffer,
                 tokenVars, running, events, nav, rendered, threadVars, probe>>

\* The user gives the input focus back to the active view (from the panel,
\* a dialog or another application).
UserFocus ==
  /\ events = <<>>
  /\ active \in open
  /\ events' = << <<"on_activated", active>> >>
  /\ UNCHANGED <<bufVars, debug, status, panelVars, enabled, updating_panel,
                 last_key, context_by_buffer, tokenVars, running, nav, rendered,
                 threadVars, probe>>

\* ------------------------------------------- token issuance at bytecode grain

\* A handler on thread th (on_selection_modified on "main",
\* on_selection_modified_async on "async") is through the guards and the
\* gate of _schedule_update (lines 432-456).
CallEnter(th) ==
  /\ calls[th].pc = "idle"
  /\ Len(issued) + Cardinality({t \in Threads : calls[t].pc # "idle"}) < MaxCalls
  /\ ~ShouldIgnore(SourceView)
  /\ ~Dormant(enabled) /\ panel_visible /\ SourceView # None
  /\ ~GateSkips(SourceView)
  /\ calls' = [calls EXCEPT ![th].pc = "load"]
  /\ UNCHANGED <<bufVars, debug, status, panelVars, enabled, updating_panel, last_key,
                 context_by_buffer, tokenVars, running, events, nav, rendered, issued, probe>>

\* STATE.seq += 1, the read
CallLoad(th) ==
  /\ calls[th].pc = "load"
  /\ calls' = [calls EXCEPT ![th].pc = "store", ![th].tmp = seq]
  /\ UNCHANGED <<bufVars, debug, status, panelVars, enabled, updating_panel, last_key,
                 context_by_buffer, tokenVars, running, events, nav, rendered, issued, probe>>

\* STATE.seq += 1, the write
CallStore(th) ==
  /\ calls[th].pc = "store"
  /\ seq' = calls[th].tmp + 1
  /\ calls' = [calls EXCEPT ![th].pc = "token"]
  /\ UNCHANGED <<bufVars, debug, status, panelVars, enabled, updating_panel, last_key,
                 context_by_buffer, last_scheduled, pending, running, events, nav,
                 rendered, issued, probe>>

\* token = STATE.seq
CallToken(th) ==
  /\ calls[th].pc = "token"
  /\ calls' = [calls EXCEPT ![th].pc = "mark", ![th].token = seq]
  /\ UNCHANGED <<bufVars, debug, status, panelVars, enabled, updating_panel, last_key,
                 context_by_buffer, tokenVars, running, events, nav, rendered, issued, probe>>

\* STATE.last_scheduled = token; sublime.set_timeout_async(_run, delay)
CallMark(th) ==
  /\ calls[th].pc = "mark"
  /\ last_scheduled' = calls[th].token
  /\ issued' = Append(issued, [thread |-> th, token |-> calls[th].token,
                               fate |-> "waiting"])
  /\ calls' = [calls EXCEPT ![th] = IdleCall]
  /\ UNCHANGED <<bufVars, debug, status, panelVars, enabled, updating_panel, last_key,
                 context_by_buffer, seq, pending, running, events, nav, rendered, probe>>

\* The callback of the i-th of those calls fires and makes its token check.
CallbackFires(i) ==
  /\ i \in 1..Len(issued)
  /\ issued[i].fate = "waiting"
  /\ issued' = [issued EXCEPT ![i].fate =
                  IF Stale(issued[i].token) THEN "dropped" ELSE "passed"]
  /\ UNCHANGED <<bufVars, debug, status, panelVars, enabled, updating_panel, last_key,
                 context_by_buffer, tokenVars, running, events, nav, rendered, calls, probe>>

\* toggle_breadcrumb_panel shows the panel; the command runs on the main
\* thread, between its handlers.
ShowPanelCommand ==
  /\ ~panel_visible
  /\ calls["main"].pc = "idle"
  /\ TogglePanel

\* ------------------------------------------------------------ specification

\* One file: the user edits and moves in the active file and toggles the panel.
Next ==
  \/ \E v \in V : OnActivated(v)
  \/ \E v \in V : OnSelectionModified(v)
  \/ \E v \in V : OnSelectionModifiedAsync(v)
  \/ \E v \in V : OnModified(v)
  \/ TogglePanel
  \/ ToggleDebug
  \/ \E token \in 1..MaxSeq : RunBegin(token)
  \/ RunWrite
  \/ RunFinish
  \/ \E p \in 0..Len(text[active]) : UserMoveCaret(p)
  \/ \E p \in 0..Len(text[active]) : UserAddCaret(p)
  \/ UserRightDelete
  \/ UserFocus
  \/ UserHidePanel
  \/ UserShowPanel

Spec == Init /\ [][Next]_vars

\* Two files: the user switches between them and moves the caret.
NextFiles ==
  \/ \E v \in V : OnActivated(v)
  \/ \E v \in V : OnSelectionModified(v)
  \/ \E v \in V : OnSelectionModifiedAsync(v)
  \/ TogglePanel
  \/ \E token \in 1..MaxSeq : RunBegin(token)
  \/ RunWrite
  \/ RunFinish
  \/ \E p \in 0..Len(text[active]) : UserMoveCaret(p)
  \/ \E v \in V : UserActivate(v)

SpecFiles == Init /\ [][NextFiles]_vars

\* The panel is clicked while updates write it; a write may raise.
NextGuard ==
  \/ \E v \in V : OnSelectionModified(v)
  \/ \E v \in V : OnSelectionModifiedAsync(v)
  \/ TogglePanel
  \/ \E token \in 1..MaxSeq : RunBegin(token)
  \/ RunWrite
  \/ RunWriteFails
  \/ RunFinish
  \/ \E p \in 0..Len(text[active]) : UserMoveCaret(p)
  \/ \E row \in 0..2 : UserClickPanel(row)
  \/ NavigateGuard
  \/ NavigateLocate
  \/ NavigateMove

SpecGuard == Init /\ [][NextGuard]_vars

\* Handlers on the main and on the alternate thread issue tokens concurrently.
NextThreads ==
  \/ ShowPanelCommand
  \/ \E th \in Threads : CallEnter(th)
  \/ \E th \in Threads : CallLoad(th)
  \/ \E th \in Threads : CallStore(th)
  \/ \E th \in Threads : CallToken(th)
  \/ \E th \in Threads : CallMark(th)
  \/ \E i \in 1..MaxCalls : CallbackFires(i)

SpecThreads == Init /\ [][NextThreads]_vars

\* The panel is shown once and the caret of the one file moves in bursts.
NextBurst ==
  \/ ShowPanelCommand
  \/ \E v \in V : OnSelectionModified(v)
  \/ \E v \in V : OnSelectionModifiedAsync(v)
  \/ \E token \in 1..MaxSeq : RunBegin(token)
  \/ RunWrite
  \/ RunFinish
  \/ \E p \in 0..Len(text[active]) : UserMoveCaretInBurst(p)

SpecBurst == Init /\ [][NextBurst]_vars

\* The panel is shown once; the user moves and adds carets and clicks rows of
\* the panel.
NextClick ==
  \/ ShowPanelCommand
  \/ \E v \in V : OnSelectionModified(v)
  \/ \E v \in V : OnSelectionModifiedAsync(v)
  \/ \E token \in 1..MaxSeq : RunBegin(token)
  \/ RunWrite
  \/ RunFinish
  \/ \E p \in 0..Len(text[active]) : UserMoveCaret(p)
  \/ \E p \in 0..Len(text[active]) : UserAddCaret(p)
  \/ \E row \in 0..MaxLines : UserClickPanel(row)
  \/ NavigateGuard
  \/ NavigateLocate
  \/ NavigateMove

SpecClick == Init /\ [][NextClick]_vars

\* ------------------------------------------------- notifications of the panel

\* The output panel as a view that notifications name.
Panel == "P"

\* What the host raises for the panel when _set_panel_text empties and fills
\* it: a modification and a selection change, the latter on both threads.
PanelEvents ==
  << <<"on_modified", Panel>>, <<"on_selection_modified", Panel>>,
     <<"on_selection_modified_async", Panel>> >>

\* _schedule_update with its token counter capped at `cap`.
ScheduleUpdateWithin(cap) ==
  IF Dormant(enabled) THEN UNCHANGED tokenVars
  ELSE IF ~panel_visible THEN UNCHANGED tokenVars
  ELSE IF SourceView = None THEN UNCHANGED tokenVars
  ELSE IF GateSkips(SourceView) THEN UNCHANGED tokenVars
  ELSE /\ seq < cap
       /\ seq' = NextToken
       /\ last_scheduled' = NextToken
       /\ pending' = pending \cup {NextToken}

\* on_modified, on_selection_modified and on_selection_modified_async
\* delivered for a file or for the panel. Whether the host marks an output
\* panel with is_widget is not known to the plugin: the handler is taken
\* both ways, returning at _should_ignore and going on to _schedule_update.
Notified(name, v) ==
  /\ events # <<>>
  /\ Head(events) = <<name, v>>
  /\ IF name = "on_selection_modified_async" THEN AsyncThreadFree ELSE MainThreadFree
  /\ events' = Tail(events)
  /\ \/ /\ v = Panel \/ ~enabled
        /\ UNCHANGED tokenVars
     \/ /\ enabled
        /\ ScheduleUpdateWithin(MaxReflexSeq)
  /\ UNCHANGED <<bufVars, debug, status, panelVars, enabled, updating_panel,
                 last_key, context_by_buffer, running, nav, rendered, threadVars, probe>>

\* _set_panel_text, the try block, with the notifications the host raises
\* for the panel.
RunWriteNotified ==
  /\ running.phase = "write"
  /\ panel_read_only' = FALSE
  /\ panel_text' = running.text
  /\ panel_sel' = Len(running.text)
  /\ rendered' = running.snapshot
  /\ running' = [running EXCEPT !.phase = "finally"]
  /\ events' = events \o PanelEvents
  /\ UNCHANGED <<bufVars, debug, status, panel_exists, panel_visible, enabled,
                 updating_panel, last_key, context_by_buffer, tokenVars,
                 nav, threadVars, probe>>

\* The user moves the caret of the active view further down.
UserMoveCaretDown(p) ==
  /\ Len(sel[active]) = 1
  /\ p > sel[active][1][1]
  /\ UserMoveCaret(p)

\* The steps the host runs for the plugin: handlers and _run callbacks.
ReflexPlugin ==
  \/ \E name \in {"on_modified", "on_selection_modified", "on_selection_modified_async"} :
       \E v \in V \cup {Panel} : Notified(name, v)
  \/ \E token \in 1..MaxReflexSeq : RunBegin(token)
  \/ RunWriteNotified
  \/ RunFinish

\* The panel is shown once and the caret moved down; every write of the panel
\* raises the panel's own notifications. The host delivers every
\* notification and fires every callback in the end.
NextReflex ==
  \/ ShowPanelCommand
  \/ \E p \in 0..Len(text[active]) : UserMoveCaretDown(p)
  \/ ReflexPlugin

SpecReflex == Init /\ [][NextReflex]_vars /\ WF_vars(ReflexPlugin)

\* Files are closed, down to a window without any, while the panel is
\* toggled, clicked and refreshed.
NextClose ==
  \/ TogglePanel
  \/ \E v \in V : OnActivated(v)
  \/ \E v \in V : OnSelectionModified(v)
  \/ \E v \in V : OnSelectionModifiedAsync(v)
  \/ \E token \in 1..MaxSeq : RunBegin(token)
  \/ RunWrite
  \/ RunFinish
  \/ \E p \in 0..Len(text[active]) : UserMoveCaret(p)
  \/ \E v \in V : UserCloseView(v)
  \/ \E row \in 0..MaxLines : UserClickPanel(row)
  \/ NavigateGuard
  \/ NavigateLocate
  \/ NavigateMove

SpecClose == Init /\ [][NextClose]_vars

\* Every line of up to MaxIndentLen characters over space, tab and one other
\* character.
IndentLines ==
  UNION {[1..n -> {SP, TAB, "x"}] : n \in 0..MaxIndentLen}

\* A call of _leading_indent_units is set up: a line and a "tab_size"
\* setting, 0 standing also for a missing one.
IndentInputs ==
  [pc : {"input"}, text : IndentLines, tab_setting : 0..MaxTabWidth,
   row : {0}, max_scan : {0},
   chain : {<<>>}, visited : {<<>>}, sels : {<<>>}, formatted : {<<>>},
   parsed : {<<>>}, points : {<<>>}, units : {0}]

\* _leading_indent_units(view, line_region) is called.
ProbeMeasure ==
  /\ probe.pc = "input"
  /\ probe' = [probe EXCEPT !.pc = "measured",
                            !.units = LeadingIndentUnits(probe.text, probe.tab_setting)]
  /\ UNCHANGED pluginVars

NextIndent == ProbeMeasure

InitIndent == Loaded /\ probe \in IndentInputs

SpecIndent == InitIndent /\ [][NextIndent]_vars

\* The resolver, the formatter and the row parse on files drawn from
\* SampleTexts.
NextPure ==
  \/ ProbeResolve
  \/ \E n \in 0..MaxCarets : ProbeFormat(n)
  \/ ProbeNavigate

InitPure == Loaded /\ probe \in ProbeInputs

SpecPure == InitPure /\ [][NextPure]_vars

\* ------------------------------------------------------------------ claims

\* Nothing is in flight: no notification undelivered, no callback waiting or
\* running.
Quiescent == events = <<>> /\ pending = {} /\ running.phase = "idle"

\* A step that delivers a notification to its handler.
HandlerDelivered == events # <<>> /\ events' = Tail(events)

\* What _format_breadcrumbs gives for view v as it is now.
CurrentCrumbs(v) == FormatBreadcrumbs(text[v], TabSetting, sel[v], MaxScanLines)

\* C1: when a _run callback fires with a token that is not the latest issued
\* (STATE.last_scheduled), it returns with no effect on the panel, the status,
\* last_key or context_by_buffer; a callback that goes on to write the panel
\* holds the latest token at the time it fires.
C1_SupersededCallbackHasNoEffect ==
  [][\A token \in pending :
       token \notin pending' =>
         /\ token # last_scheduled =>
              UNCHANGED <<panelVars, status, last_key, context_by_buffer,
                          updating_panel, running, rendered, probe>>
         /\ running'.phase = "write" => running'.token = last_scheduled]_vars

\* C1 witness: token 1 was superseded by token 2, its callback has fired, and
\* nothing was written.
C1_SupersededCallbackFired ==
  /\ seq = 2 /\ pending = {2} /\ running.phase = "idle"
  /\ rendered = <<>> /\ panel_text = <<>> /\ last_key = <<>> /\ enabled

\* C2 (its second sentence): a notification handled while the feature is
\* enabled, the panel visible and the source buffer another one than the
\* buffer of the last output on the panel is never skipped by the gate: a
\* token is issued.
C2_OtherBufferNeverSkipped ==
  [][(/\ HandlerDelivered
      /\ ~ShouldIgnore(Head(events)[2]) /\ Head(events)[2] \in open
      /\ panel_visible /\ SourceView # None
      /\ rendered # <<>> /\ rendered[1] # SourceView)
     => seq' = seq + 1]_vars

\* C3: once updates have quiesced, with the feature enabled, the panel
\* visible and one caret in the buffer the panel was last written for, the
\* panel is not one computed from an earlier revision: it was computed from
\* the current revision or shows the current chain.
C3_NoStaleRevisionShown ==
  (/\ enabled /\ panel_visible /\ Quiescent
   /\ SourceView # None /\ rendered # <<>> /\ rendered[1] = SourceView
   /\ Len(sel[SourceView]) = 1)
  => (rendered[4] = cc[SourceView] \/ panel_text = CurrentCrumbs(SourceView))

\* C4: in a step that begins and ends with the feature disabled, the panel
\* text is not written and no view's status annotation changes.
C4_NoWriteWhileDisabled ==
  [][(~enabled /\ ~enabled') => (panel_text' = panel_text /\ status' = status)]_vars

\* C5: the step in which toggle_panel enables the feature, in a window with a
\* source view, issues a new token and schedules its callback.
C5_EnableIssuesToken ==
  [][(~enabled /\ enabled' /\ SourceView # None)
     => (seq' = seq + 1 /\ last_scheduled' = seq' /\ seq' \in pending')]_vars

\* C6: with the feature enabled, the panel visible, nothing in flight and a
\* selection count other than 1 in the source view, the panel text is
\* "Multiple contexts\n".
C6_MultipleContextsShown ==
  (/\ enabled /\ panel_visible /\ Quiescent
   /\ SourceView # None /\ Len(sel[SourceView]) # 1)
  => panel_text = MultipleContexts

\* C7: no two _schedule_update calls obtain the same token, and no two
\* callbacks holding the same token pass the token check.
C7_TokensDistinct ==
  \A i, j \in 1..Len(issued) :
    i # j => issued[i].token # issued[j].token

\* C8: last_scheduled equals seq in every state, the tokens waiting were
\* issued from 1 on, every token issued is seq + 1 and becomes the new seq
\* and last_scheduled, and no step decreases or resets seq.
C8_TokensStrictlyIncreasing ==
  /\ [](last_scheduled = seq /\ pending \subseteq 1..seq)
  /\ [][/\ seq' \in {seq, seq + 1}
        /\ \A token \in pending' \ pending :
             token = seq + 1 /\ seq' = token /\ last_scheduled' = token
        /\ seq' = seq + 1 => seq' \in pending']_vars

\* C8 witness: two tokens were issued, the second still waits, and the
\* panel has since been hidden by toggle_panel.
C8_TwoTokensThenHidden ==
  seq = 2 /\ last_scheduled = 2 /\ 2 \in pending /\ 1 \notin pending
  /\ ~enabled /\ ~panel_visible /\ panel_exists

\* C9: while STATE.enabled is false, a step that delivers on_activated,
\* on_selection_modified, on_selection_modified_async or on_modified, or that
\* runs toggle_debug, issues no token, schedules no callback and leaves seq,
\* last_scheduled, last_key and context_by_buffer as they were.
C9_DormantHandlersDoNothing ==
  [][(~enabled /\ (HandlerDelivered \/ debug' # debug))
     => UNCHANGED <<seq, last_scheduled, pending, last_key, context_by_buffer>>]_vars

\* C9 witness: the feature is disabled while its panel is shown again from
\* the panel switcher; the buffer was edited after the last cheap context was
\* recorded, toggle_debug has run, every notification is delivered, and no
\* token beyond the first was issued.
C9_DormantWithPanelShown ==
  /\ ~enabled /\ panel_visible /\ events = <<>> /\ pending = {}
  /\ seq = 1 /\ cc["A"] = 1 /\ debug["A"]
  /\ context_by_buffer["A"] # <<>> /\ context_by_buffer["A"][3] = 0

\* C10: updating_panel is true exactly while a _run callback is inside
\* _set_panel_text (also when the write raises), the panel is read-only
\* whenever it is false, and while it is true no step of on_text_command or
\* _navigate_from_panel changes a source view's selection.
C10_GuardFlagCoversWrites ==
  /\ [](updating_panel <=> running.phase \in {"write", "finally"})
  /\ [](~updating_panel => panel_read_only)
  /\ [][(updating_panel /\ nav' # nav) => sel' = sel]_vars

\* C11 as stated: the text of the panel changes only in a step of a _run
\* callback that passed the token check; no handler, command or navigation
\* step changes it.
C11_OnlyCommittedCallbackWrites ==
  [][panel_text' # panel_text =>
       running' # running /\ running'.phase \in {"write", "finally"}]_vars

\* C11 amended: text is put into the panel only by the write of a _run
\* callback, which held the latest token when it fired; the one other change
\* is that _panel_view leaves the panel empty, when that callback begins and
\* when toggle_panel shows the panel.  No handler or navigation step changes
\* the text.
C11_TextFromCommittedCallbackOrRecreated ==
  [][panel_text' # panel_text =>
       \/ /\ running.phase = "write" /\ running'.phase = "finally"
          /\ panel_text' = running.text
       \/ /\ panel_text' = <<>>
          /\ running.phase = "idle" /\ running'.phase = "write"
          /\ running'.token = last_scheduled
       \/ /\ panel_text' = <<>>
          /\ ~panel_visible /\ panel_visible' /\ enabled'
          /\ running' = running]_vars

\* C11 witness: the panel had been written, and showing it again has left it
\* empty with no callback running.
C11_ShownAgainEmpty ==
  /\ enabled /\ panel_visible /\ rendered # <<>>
  /\ panel_text = <<>> /\ running.phase = "idle"

\* C12: with the feature enabled, the panel visible and one caret in the one
\* source buffer, once a burst of caret moves is over and nothing is left to
\* run, the panel shows the breadcrumbs of the final caret row.
C12_PanelShowsFinalCaret ==
  (/\ enabled /\ panel_visible /\ Quiescent
   /\ SourceView # None /\ Len(sel[SourceView]) = 1)
  => panel_text = CurrentCrumbs(SourceView)

\* The probe's call of _find_breadcrumb_lines has returned.
ProbeResolved == probe.pc \in {"resolved", "formatted", "navigated"}

\* The target row of the probe after clamping, the text of a row of its
\* file, and the row's columns and units of indentation.
ProbeTarget == ClampRow(probe.text, probe.row)

ProbeLine(r) == Substr(probe.text, LineRegions(probe.text)[r + 1])

ProbeCols(r) == IndentCols(ProbeLine(r), 1, 0, TabSizeOf(probe.tab_setting))

ProbeUnits(r) == ProbeCols(r) \div TabSizeOf(probe.tab_setting)

\* The trimmed line is empty or holds closer characters only.
BlankOrCloser(line_text) ==
  \A j \in 1..Len(Strip(line_text)) : Strip(line_text)[j] \in CloserChars

\* C13: the chain of _find_breadcrumb_lines is ordered outermost first, with
\* strictly increasing units and line numbers; every element is a line above
\* the target row, carries that line's units, and is indented less than the
\* target line.
C13_ChainOrdered ==
  ProbeResolved =>
    /\ \A i \in 1..(Len(probe.chain) - 1) :
         /\ probe.chain[i][3] < probe.chain[i + 1][3]
         /\ probe.chain[i][1] < probe.chain[i + 1][1]
    /\ \A i \in 1..Len(probe.chain) :
         /\ probe.chain[i][1] >= 1
         /\ probe.chain[i][1] - 1 < ProbeTarget
         /\ probe.chain[i][3] = ProbeUnits(probe.chain[i][1] - 1)
         /\ probe.chain[i][3] < ProbeUnits(ProbeTarget)

\* C13 witness: a chain of two ancestors.
C13_TwoAncestors == probe.pc = "resolved" /\ Len(probe.chain) = 2

C15_ScanBounded ==
  ProbeResolved =>
    /\ Len(probe.visited) <= probe.max_scan
    /\ \A j \in 1..Len(probe.visited) : probe.visited[j] = ProbeTarget - j
    /\ \A i \in 1..Len(probe.chain) :
         /\ \E j \in 1..Len(probe.visited) : probe.visited[j] = probe.chain[i][1] - 1
         /\ ProbeTarget - (probe.chain[i][1] - 1) <= probe.max_scan

\* C15 witness: max_scan = 1 was used up on a blank line, with an ancestor
\* left unvisited above it.
C15_BudgetSpentOnBlank ==
  /\ probe.pc = "resolved" /\ probe.max_scan = 1
  /\ probe.visited = <<1>> /\ IsBlank(ProbeLine(1))
  /\ ProbeUnits(0) < ProbeUnits(ProbeTarget)
  /\ ~BlankOrCloser(ProbeLine(0))
  /\ probe.chain = <<>>

\* C16: when the target line (the row clamped into the file) has fewer
\* leading columns than one unit, as every line of an empty file has, the
\* chain is empty and no line above the target is visited.
C16_TopLevelHasNoChain ==
  (ProbeResolved /\ ProbeCols(ProbeTarget) < TabSizeOf(probe.tab_setting))
  => (probe.chain = <<>> /\ probe.visited = <<>>)

\* C16 witness: the target is the last row, given as a row past the end; it
\* starts with a space but measures 0 units, and lines stand above it.
C16_IndentedBelowOneUnit ==
  /\ probe.pc = "resolved" /\ probe.row = MaxLines
  /\ ProbeTarget = MaxLines - 1
  /\ ProbeCols(ProbeTarget) = 1 /\ TabSizeOf(probe.tab_setting) = DefaultTabSize
  /\ probe.chain = <<>> /\ probe.visited = <<>>

\* The rows of the probe's formatted text.
ProbeRows == LineRegions(probe.formatted)

ProbeRow(i) == Substr(probe.formatted, ProbeRows[i])

\* C17: _format_breadcrumbs gives "Multiple contexts\n" when the selection
\* count is not 1; else "No indent\n" when the chain is empty; else one
\* newline-terminated row per element of the chain, in the chain's order,
\* each with the element's line number before its first colon and the
\* element's text after it.
C17_FormatPriority ==
  probe.pc \in {"formatted", "navigated"} =>
    IF Len(probe.sels) # 1 THEN probe.formatted = MultipleContexts
    ELSE IF probe.chain = <<>> THEN probe.formatted = NoIndent
    ELSE /\ Len(ProbeRows) = Len(probe.chain) + 1
         /\ ProbeRow(Len(ProbeRows)) = <<>>
         /\ probe.formatted[Len(probe.formatted)] = NL
         /\ \A i \in 1..Len(probe.chain) :
              /\ Strip(BeforeColon(ProbeRow(i))) = Digits(probe.chain[i][1])
              /\ SubSeq(ProbeRow(i), Len(BeforeColon(ProbeRow(i))) + 2,
                        Len(ProbeRow(i)))
                 = <<SP, SP>> \o probe.chain[i][2]

\* C17 witness: one caret, two ancestors, two rows formatted.
C17_TwoRowsFormatted ==
  /\ probe.pc = "formatted" /\ Len(probe.sels) = 1
  /\ Len(probe.chain) = 2 /\ Len(ProbeRows) = 3

\* C19: for every row _format_breadcrumbs renders for an element of the
\* chain, the parse of _navigate_from_panel gives the element's line number,
\* and the caret goes to the start of that line of the file.
C19_RowParsesToItsLine ==
  (probe.pc = "navigated" /\ Len(probe.sels) = 1 /\ probe.chain # <<>>) =>
    \A i \in 1..Len(probe.chain) :
      /\ probe.parsed[i] = <<probe.chain[i][1]>>
      /\ probe.points[i] = <<LineRegions(probe.text)[probe.chain[i][1]][1]>>

\* C19 witness: a rendered row whose line text holds a colon has been parsed.
C19_ColonInLineText ==
  /\ probe.pc = "navigated" /\ Len(probe.sels) = 1
  /\ \E i \in 1..Len(probe.chain) :
       /\ \E j \in 1..Len(probe.chain[i][2]) : probe.chain[i][2][j] = COLON
       /\ probe.parsed[i] = <<probe.chain[i][1]>>
       /\ probe.chain[i][1] = 2

\* The trimmed text of the panel's line `row`.
PanelLine(row) ==
  Strip(Substr(panel_text, LineAt(panel_text, TextPoint(panel_text, row))))

\* C18: the step of _navigate_from_panel that reads the clicked line sets the
\* caret of the source view to the start of the line named, if the line is
\* not empty, holds a colon and the text before its first colon parses as an
\* integer; in every other case (a click on "No indent", on "Multiple
\* contexts", on the empty last line) the selection stays as it is.
C18_NavigatesIffRowParses ==
  [][(nav.pc = "located" /\ nav'.pc = "none") =>
       IF /\ PanelLine(nav.row) # <<>>
          /\ \E i \in 1..Len(PanelLine(nav.row)) : PanelLine(nav.row)[i] = COLON
          /\ ParseInt(BeforeColon(PanelLine(nav.row))) # <<>>
       THEN sel'[SourceView] =
              << <<TextPoint(text[SourceView],
                             Max(0, ParseInt(BeforeColon(PanelLine(nav.row)))[1] - 1)),
                   TextPoint(text[SourceView],
                             Max(0, ParseInt(BeforeColon(PanelLine(nav.row)))[1] - 1))>> >>
       ELSE sel' = sel]_vars

\* C18 witness: the row "     1:  x" was clicked while two carets stood in
\* the file, and the one caret is now at the start of line 1.
C18_MovedToClickedLine ==
  /\ nav = IdleNav /\ panel_sel = 0
  /\ panel_text = CrumbRow(<<1, <<"x">>, 0>>) \o <<NL>>
  /\ sel["A"] = << <<0, 0>> >>
  /\ events = SelectionEvents("A")
  /\ context_by_buffer["A"] = <<1, 1, 0>>

\* C20: a step of toggle_debug negates the debug flag of the active view,
\* and, when the feature is enabled, the panel is visible and there is a
\* source view, issues a new token and schedules its callback, also when the
\* cheap context equals the one recorded at the last render.
C20_DebugToggleIssuesToken ==
  [][(debug' # debug) =>
       /\ debug' = [debug EXCEPT ![active] = ~debug[active]]
       /\ (enabled /\ panel_visible /\ SourceView # None)
            => (seq' = seq + 1 /\ last_scheduled' = seq' /\ seq' \in pending')]_vars

\* C21: while the window holds no file, no step issues a token or schedules
\* a callback (a handler and toggle_panel reach _schedule_update in vain), a _run that fires leaves last_key,
\* context_by_buffer, the panel, the guard flag and the status annotations
\* as they were, and no step, _navigate_from_panel included, changes a
\* selection.
C21_NothingDoneWithoutSourceView ==
  [][(open = {}) =>
       /\ UNCHANGED <<seq, last_scheduled, sel>>
       /\ pending' \subseteq pending
       /\ running' = IdleRun
       /\ (pending' # pending) =>
            UNCHANGED <<last_key, context_by_buffer, panelVars, updating_panel,
                        status>>]_vars

\* C21 witness: the only token ever issued was consumed by a _run that fired
\* after the last file was closed: nothing was rendered or recorded.
C21_RunFiredWithoutSourceView ==
  /\ open = {} /\ enabled /\ panel_visible
  /\ seq = 1 /\ pending = {} /\ running = IdleRun
  /\ last_key = <<>> /\ panel_text = <<>>
  /\ \A v \in V : context_by_buffer[v] = <<>>

\* Row r of the probe's file is not blank, not closer-only and indented
\* strictly less than row `below`.
ProbeAncestorOf(r, below) ==
  /\ Strip(ProbeLine(r)) # <<>>
  /\ ~BlankOrCloser(ProbeLine(r))
  /\ ProbeUnits(r) < ProbeUnits(below)

\* C22: every element of the chain is the nearest line above its successor
\* (above the target row, for the last element) that is not blank, not
\* closer-only and indented strictly less than the successor; and when the
\* first element is indented, the walk has visited the first line of the
\* file or has used up max_scan.
C22_NearestAncestors ==
  ProbeResolved =>
    /\ \A i \in 1..Len(probe.chain) :
         LET below == IF i = Len(probe.chain) THEN ProbeTarget
                      ELSE probe.chain[i + 1][1] - 1
             r == probe.chain[i][1] - 1
         IN  /\ r < below
             /\ ProbeAncestorOf(r, below)
             /\ \A q \in (r + 1)..(below - 1) : ~ProbeAncestorOf(q, below)
    /\ (probe.chain # <<>> /\ probe.chain[1][3] > 0) =>
         \/ \E j \in 1..Len(probe.visited) : probe.visited[j] = 0
         \/ Len(probe.visited) = probe.max_scan

\* C22 witness: the budget ran out on an indented ancestor, which heads the
\* chain while an unindented line above it was not visited.
C22_BudgetEndsOnIndentedAncestor ==
  /\ probe.pc = "resolved"
  /\ Len(probe.chain) = 1 /\ probe.chain[1][3] > 0
  /\ Len(probe.visited) = probe.max_scan
  /\ \A j \in 1..Len(probe.visited) : probe.visited[j] # 0
  /\ ProbeUnits(0) = 0 /\ ~BlankOrCloser(ProbeLine(0))

\* C23: the notifications that a write of the panel raises for the panel
\* lead to no further write: a _run starts a write only for a context other
\* than the one last written; the tokens issued stay below the cap however
\* the notifications are delivered; and once the user has stopped the plugin
\* comes to rest for good with nothing undelivered, no callback waiting or
\* running, and the panel text no longer changing.
C23_RendersComeToRest ==
  /\ [][(running.phase = "idle" /\ running'.phase = "write" /\ rendered # <<>>)
         => running'.snapshot # rendered]_vars
  /\ [](seq < MaxReflexSeq)
  /\ <>[]Quiescent
  /\ <>[][panel_text' = panel_text]_vars

\* C23 witness: the caret was never moved, the panel was rendered once, and
\* the panel's own notifications had two more tokens issued, both consumed
\* without a write.
C23_ReflexiveTokensConsumed ==
  /\ Quiescent /\ seq = 3
  /\ sel["A"] = << <<0, 0>> >>
  /\ panel_text = NoIndent /\ rendered = <<"A", 0, 0, 0>>

\* The length of the leading run of spaces and tabs of a line.
RECURSIVE LeadLen(_)
LeadLen(line_text) ==
  IF line_text = <<>> \/ Head(line_text) \notin {SP, TAB} THEN 0
  ELSE 1 + LeadLen(Tail(line_text))

\* The reference measure: the column after the first n characters of a
\* leading run, a space adding one column and a tab moving to the next
\* multiple of w.
RECURSIVE RefCols(_, _, _)
RefCols(line_text, n, w) ==
  IF n = 0 THEN 0
  ELSE IF line_text[n] = SP THEN RefCols(line_text, n - 1, w) + 1
  ELSE ((RefCols(line_text, n - 1, w) \div w) + 1) * w

\* C24: for every line over space, tab and another character and every tab
\* width, a missing or zero tab_size counting as 4, _leading_indent_units
\* is the reference columns of the leading run divided by the width and
\* rounded down; fewer spaces than the width followed by a tab and no more
\* white space measure exactly 1 unit.
C24_UnitsAreReferenceMeasure ==
  (probe.pc = "measured") =>
    LET w == IF probe.tab_setting = 0 THEN 4 ELSE probe.tab_setting
        n == LeadLen(probe.text)
    IN  /\ probe.units = RefCols(probe.text, n, w) \div w
        /\ (/\ n >= 1 /\ n - 1 < w
            /\ probe.text[n] = TAB
            /\ \A k \in 1..(n - 1) : probe.text[k] = SP)
           => probe.units = 1

\* C24 witness: three spaces and a tab, no tab_size set: 1 unit.
C24_ThreeSpacesAndTab ==
  /\ probe.pc = "measured"
  /\ probe.text = <<SP, SP, SP, TAB>> /\ probe.tab_setting = 0
  /\ probe.units = 1

====
